---- MODULE Spec2Model ----
(***************************************************************************)
(* AIVA backend: the hybrid environmental analysis of                      *)
(* Backend/services/ai_brain.py (EnhancedHybridEnvironmentalAI), the vision *)
(* side it consumes (Backend/services/vision.py), the reading side         *)
(* (Backend/services/environment.py) and the /analyze handler of           *)
(* Backend/main.py.                                                        *)
(*                                                                         *)
(* Numbers.  A Python float x is the integer 100*x (hundredths); the       *)
(* product of two floats is Mul.  Every input set below is chosen so that  *)
(* no product loses a digit.                                               *)
(* Optional values.  Python None is the empty set, a value v is {v}.       *)
(* Dicts are functions from key strings; dict.get is DictGet.              *)
(***************************************************************************)
EXTENDS Integers, Sequences, FiniteSets, TLC

VARIABLES
    pc,                 \* position of the /analyze request
    traditional_data,   \* result of _get_traditional_environmental_data
    cnn_data,           \* result of analyze_satellite_image
    fused_vegetation,   \* result of _fuse_vegetation_analysis
    enhanced_score,     \* result of _calculate_enhanced_environmental_score
    combined_risks,     \* result of _combine_risk_assessments
    fusion_confidence,  \* result of _calculate_fusion_confidence
    enhanced_conservation, \* result of _enhance_conservation_recommendations
    raised,             \* the Python exception in flight, "none" if none
    response,           \* HTTP status of the reply, 0 before the reply
    fn,                 \* a function called on its own: its name once called
    args,               \* ... its arguments
    result,             \* ... its return value, None if it raised
    now,                \* the wall clock datetime.now() reads
    frames,             \* the local variables of each of the requests running
                        \* at once on the one engine of main.py line 20
    conversation_history \* ConversationService.conversation_history

vars == <<pc, traditional_data, cnn_data, fused_vegetation, enhanced_score,
          combined_risks, fusion_confidence, enhanced_conservation, raised,
          response, fn, args, result, now, frames, conversation_history>>

\* what a step of the /analyze request leaves alone
callvars == <<fn, args, result, now, frames, conversation_history>>

----------------------------------------------------------------------------
(* Python values *)

F(n) == n * 100                       \* the float of the integer n
Mul(a, b) == (a * b) \div 100         \* product of two floats
Abs(x) == IF x < 0 THEN -x ELSE x
Max(a, b) == IF a > b THEN a ELSE b
Min(a, b) == IF a < b THEN a ELSE b

None == {}
Some(v) == {v}
IsNone(o) == o = {}
Val(o) == CHOOSE v \in o : TRUE

DictGet(d, k, default) == IF k \in DOMAIN d THEN d[k] ELSE default
\* truth value of "x" in "... if x else None" for a dict or None
Truthy(o) == ~IsNone(o) /\ DOMAIN Val(o) # {}

----------------------------------------------------------------------------
(* Backend/services/environment.py: labels attached to the vegetation dict *)

_classify_vegetation_health(health_percentage) ==
    IF health_percentage >= F(80) THEN "Excellent"
    ELSE IF health_percentage >= F(60) THEN "Good"
    ELSE IF health_percentage >= F(40) THEN "Moderate"
    ELSE IF health_percentage >= F(20) THEN "Poor"
    ELSE "Very Poor"

----------------------------------------------------------------------------
(* Backend/services/ai_brain.py: _get_traditional_environmental_data *)

ReadingAqi(air_quality) ==
    IF Truthy(air_quality) THEN DictGet(Val(air_quality), "aqi", Some(F(50)))
    ELSE None

ReadingTemp(weather) ==
    IF Truthy(weather) THEN DictGet(Val(weather), "temperature", Some(F(20)))
    ELSE None

ReadingVegHealth(vegetation) ==
    IF Truthy(vegetation)
    THEN DictGet(Val(vegetation), "vegetation_health", Some(F(50)))
    ELSE None

\* the weights of the quick scan (main.py line 200) in place of line 57's
EnvScoreFormula_quick_weights(aqi, temp, veg_health) ==
    Mul(F(100) - Max(0, aqi - F(50)), 40) + Mul(veg_health, 40)
        + Mul(Max(0, F(50) - Abs(temp - F(22))), 20)

\* line 57
EnvScoreFormula(aqi, temp, veg_health) ==
    Mul(F(100) - Max(0, aqi - F(50)), 30) + Mul(veg_health, 50)
        + Mul(Max(0, F(50) - Abs(temp - F(22))), 20)

EnvScore(air_quality, weather, vegetation) ==
    LET aqi == ReadingAqi(air_quality)
        temp == ReadingTemp(weather)
        veg_health == ReadingVegHealth(vegetation)
    IN  IF ~IsNone(aqi) /\ ~IsNone(temp) /\ ~IsNone(veg_health)
        THEN Some(EnvScoreFormula(Val(aqi), Val(temp), Val(veg_health)))
        ELSE None

_get_traditional_environmental_data(air_quality, weather, vegetation) ==
    [air_quality |-> air_quality,
     weather |-> weather,
     vegetation |-> vegetation,
     environmental_score |-> EnvScore(air_quality, weather, vegetation)]

----------------------------------------------------------------------------
(* Backend/services/vision.py *)

\* one-element list if c, else the empty list (a guarded list.append)
AppendIf(c, x) == IF c THEN <<x>> ELSE <<>>

_classify_vegetation_from_cnn(health_score) ==
    IF health_score > 80 THEN "excellent"
    ELSE IF health_score > 60 THEN "good"
    ELSE IF health_score > 40 THEN "moderate"
    ELSE IF health_score > 20 THEN "poor"
    ELSE "critical"

_assess_cnn_environmental_risks(cnn_results) ==
    LET veg_health == cnn_results.vegetation.health_score
        deforest_risk == cnn_results.deforestation.deforestation_risk
        water_presence == cnn_results.water.water_presence_probability
        urban_prob == cnn_results.urban.urban_probability
        risks ==
            AppendIf(veg_health < 30,
                [type |-> "vegetation_degradation",
                 severity |-> IF veg_health < 15 THEN "high" ELSE "moderate",
                 cnn_confidence |-> 90])
            \o AppendIf(deforest_risk > 50,
                [type |-> "deforestation_detected",
                 severity |-> IF deforest_risk > 70 THEN "high" ELSE "moderate",
                 cnn_confidence |-> 85])
            \o AppendIf(water_presence < 20,
                [type |-> "water_scarcity",
                 severity |-> IF water_presence < 10 THEN "high" ELSE "moderate",
                 cnn_confidence |-> 80])
            \o AppendIf(urban_prob > 70 /\ veg_health < 50,
                [type |-> "urban_environmental_pressure",
                 severity |-> "moderate",
                 cnn_confidence |-> 75])
    IN  [pytype |-> "dict",
         detected_risks |-> risks,
         overall_risk_level |->
            IF Len(risks) >= 3 THEN "high"
            ELSE IF Len(risks) >= 1 THEN "moderate" ELSE "low"]

_generate_cnn_conservation_priorities(cnn_results) ==
    LET veg_health == cnn_results.vegetation.health_score
        deforest_risk == cnn_results.deforestation.deforestation_risk
        water_presence == cnn_results.water.water_presence_probability
        biomass == cnn_results.vegetation.biomass_estimate
    IN  AppendIf(veg_health > 70 /\ deforest_risk < 30,
            [priority |-> "high",
             action |-> "Protect existing high-quality vegetation"])
        \o AppendIf(veg_health < 40 /\ deforest_risk < 50,
            [priority |-> "high",
             action |-> "Implement vegetation restoration program"])
        \o AppendIf(water_presence < 30,
            [priority |-> "medium",
             action |-> "Implement water conservation measures"])
        \o AppendIf(biomass > F(15),
            [priority |-> "medium",
             action |-> "Enhance carbon sequestration programs"])

_calculate_cnn_environmental_score(cnn_results) ==
    LET vegetation_score == Mul(cnn_results.vegetation.health_score, F(40))
        water_score ==
            Mul(cnn_results.water.water_presence_probability, F(25))
        urban_impact ==
            Mul(F(1) - cnn_results.urban.urban_probability, F(20))
        deforestation_impact ==
            Mul(F(1) - cnn_results.deforestation.deforestation_risk, F(15))
        total_score == vegetation_score + water_score + urban_impact
                        + deforestation_impact
    IN  Min(F(100), Max(0, total_score))

\* line 656: the 0-1 health of the model as a percentage
CnnHealthScore_unscaled(health_score) == health_score

CnnHealthScore(health_score) == health_score * 100

_combine_cnn_and_location_analysis(cnn_results) ==
    LET vegetation_cnn == cnn_results.vegetation
    IN  [cnn_analysis_type |-> "satellite_image_analysis",
         vegetation_analysis |->
            [cnn_health_score |-> Some(CnnHealthScore(vegetation_cnn.health_score)),
             cnn_predicted_ndvi |-> Some(vegetation_cnn.predicted_ndvi),
             cnn_biomass_estimate |-> Some(vegetation_cnn.biomass_estimate),
             vegetation_status |->
                _classify_vegetation_from_cnn(vegetation_cnn.health_score)],
         environmental_risks |-> _assess_cnn_environmental_risks(cnn_results),
         conservation_priorities |->
            _generate_cnn_conservation_priorities(cnn_results),
         environmental_score |->
            Some(_calculate_cnn_environmental_score(cnn_results)),
         cnn_confidence |->
            [vegetation_model |-> "high", water_detection |-> "high",
             urban_classification |-> "medium",
             deforestation_detection |-> "high"]]

_simulate_cnn_analysis ==
    [cnn_analysis_type |-> "no_real_satellite_data",
     vegetation_analysis |->
        [cnn_health_score |-> None,
         cnn_predicted_ndvi |-> None,
         cnn_biomass_estimate |-> None,
         vegetation_status |-> "unknown - no satellite data"],
     environmental_risks |-> [pytype |-> "list", items |-> <<>>],
     conservation_priorities |-> <<>>,
     environmental_score |-> None,
     cnn_confidence |->
        [vegetation_model |-> "unavailable", water_detection |-> "unavailable",
         urban_classification |-> "unavailable",
         deforestation_detection |-> "unavailable"]]

\* real_image: the satellite fetch succeeded, preprocessing returned an image
\* and every model predicted; anything else ends in _simulate_cnn_analysis
\* (the fall-through of line 538 or the except of lines 540-542).
analyze_satellite_image(real_image, cnn_results) ==
    IF real_image THEN _combine_cnn_and_location_analysis(cnn_results)
    ELSE _simulate_cnn_analysis

----------------------------------------------------------------------------
(* Backend/services/ai_brain.py: the fusion steps.  For a step X, XRaises  *)
(* is the exception the Python raises on these arguments ("none" if it     *)
(* returns) and X is the value it returns.                                 *)

_fuse_vegetation_analysis_raises(traditional_veg, cnn_veg) ==
    IF IsNone(traditional_veg) THEN "AttributeError"       \* None.get
    ELSE IF IsNone(DictGet(cnn_veg, "cnn_health_score", Some(F(50))))
            \/ IsNone(DictGet(Val(traditional_veg), "vegetation_health",
                              Some(F(50))))
         THEN "TypeError"                                   \* None * 0.7
    ELSE "none"

TraditionalStatus(traditional_health) ==
    IF traditional_health > F(60) THEN "good"
    ELSE IF traditional_health > F(30) THEN "moderate"
    ELSE "poor"

\* lines 151-157 with the two branches exchanged
ConsensusStatus_traditional_wins(traditional_status, cnn_status) ==
    traditional_status

\* lines 151-157: the label
ConsensusStatus(traditional_status, cnn_status) ==
    IF traditional_status = cnn_status THEN traditional_status ELSE cnn_status

\* lines 151-157: the confidence
ConsensusConfidence(traditional_status, cnn_status) ==
    IF traditional_status = cnn_status THEN "high" ELSE "medium"

_fuse_vegetation_analysis(traditional_veg, cnn_veg) ==
    LET traditional_health ==
            Val(DictGet(Val(traditional_veg), "vegetation_health", Some(F(50))))
        cnn_health == Val(DictGet(cnn_veg, "cnn_health_score", Some(F(50))))
        cnn_ndvi == DictGet(cnn_veg, "cnn_predicted_ndvi", Some(50))
        cnn_weight == 70
        traditional_weight == 30
        fused_health == Mul(cnn_health, cnn_weight)
                            + Mul(traditional_health, traditional_weight)
        traditional_status == TraditionalStatus(traditional_health)
        cnn_status == DictGet(cnn_veg, "vegetation_status", "moderate")
    IN  [fused_ndvi |-> cnn_ndvi,
         fused_health_score |-> fused_health,
         consensus_status |-> ConsensusStatus(traditional_status, cnn_status),
         fusion_confidence |->
            ConsensusConfidence(traditional_status, cnn_status),
         traditional_ai_input |->
            [health |-> traditional_health, status |-> traditional_status],
         cnn_ai_input |->
            [ndvi |-> cnn_ndvi, health |-> cnn_health, status |-> cnn_status]]

_calculate_enhanced_environmental_score_raises(traditional_score, cnn_score) ==
    IF IsNone(cnn_score) \/ IsNone(traditional_score) THEN "TypeError"
    ELSE "none"

ScoreAgreement_inclusive(score_difference) ==
    IF score_difference <= F(10) THEN "high"
    ELSE IF score_difference <= F(20) THEN "medium"
    ELSE "low_agreement"

ScoreAgreement(score_difference) ==
    IF score_difference < F(10) THEN "high"
    ELSE IF score_difference < F(20) THEN "medium"
    ELSE "low_agreement"

\* line 189
WeightedScore_equal_weights(traditional_score, cnn_score) ==
    Mul(cnn_score, 60) + Mul(traditional_score, 60)

WeightedScore(traditional_score, cnn_score) ==
    Mul(cnn_score, 60) + Mul(traditional_score, 40)

\* line 192 without abs()
ScoreDifference_signed(traditional_score, cnn_score) ==
    traditional_score - cnn_score

\* line 192
ScoreDifference(traditional_score, cnn_score) ==
    Abs(traditional_score - cnn_score)

_calculate_enhanced_environmental_score(traditional_score, cnn_score) ==
    LET t == Val(traditional_score)
        c == Val(cnn_score)
        score_difference == ScoreDifference(t, c)
    IN  [enhanced_score |-> WeightedScore(t, c),
         traditional_ai_score |-> t,
         cnn_ai_score |-> c,
         score_agreement |-> ScoreAgreement(score_difference),
         score_difference |-> score_difference]

_combine_risk_assessments_raises(traditional, cnn_risks) ==
    IF IsNone(traditional.air_quality) \/ IsNone(traditional.weather)
        \/ IsNone(traditional.vegetation)
    THEN "AttributeError"                                   \* None.get
    ELSE IF IsNone(DictGet(Val(traditional.air_quality), "aqi", Some(F(50))))
            \/ IsNone(DictGet(Val(traditional.weather), "temperature",
                              Some(F(20))))
            \/ IsNone(DictGet(Val(traditional.vegetation), "vegetation_health",
                              Some(F(50))))
         THEN "TypeError"                                   \* None > 100
    ELSE IF cnn_risks.pytype = "list" THEN "AttributeError" \* [].get
    ELSE "none"

TraditionalRisks(aqi, temp, veg_health) ==
    AppendIf(aqi > F(100),
        [type |-> "air_pollution",
         severity |-> IF aqi > F(150) THEN "high" ELSE "moderate",
         detection_method |-> "traditional_environmental_ai"])
    \o AppendIf(temp > F(35) \/ temp < F(-10),
        [type |-> "temperature_stress",
         severity |-> IF temp > F(40) \/ temp < F(-20) THEN "high"
                      ELSE "moderate",
         detection_method |-> "traditional_environmental_ai"])
    \o AppendIf(veg_health < F(30),
        [type |-> "vegetation_decline",
         severity |-> IF veg_health < F(15) THEN "high" ELSE "moderate",
         detection_method |-> "traditional_environmental_ai"])

\* line 245 with the first threshold one too high
CombinedLevel_above_three(risk_count) ==
    IF risk_count > 3 THEN "high"
    ELSE IF risk_count > 0 THEN "moderate" ELSE "low"

CombinedLevel(risk_count) ==
    IF risk_count > 2 THEN "high"
    ELSE IF risk_count > 0 THEN "moderate" ELSE "low"

\* line 241 keeping three risks only, as main.py line 141 does for display
AllRisks_top_three(traditional_risks, cnn_detected_risks) ==
    SubSeq(traditional_risks \o cnn_detected_risks, 1,
           Min(3, Len(traditional_risks \o cnn_detected_risks)))

\* line 241
AllRisks(traditional_risks, cnn_detected_risks) ==
    traditional_risks \o cnn_detected_risks

_combine_risk_assessments(traditional, cnn_risks) ==
    LET aqi == Val(DictGet(Val(traditional.air_quality), "aqi", Some(F(50))))
        temp == Val(DictGet(Val(traditional.weather), "temperature",
                            Some(F(20))))
        veg_health == Val(DictGet(Val(traditional.vegetation),
                                  "vegetation_health", Some(F(50))))
        traditional_risks == TraditionalRisks(aqi, temp, veg_health)
        all_risks == AllRisks(traditional_risks, cnn_risks.detected_risks)
    IN  [all_detected_risks |-> all_risks,
         traditional_ai_risks |-> traditional_risks,
         cnn_ai_risks |-> cnn_risks.detected_risks,
         combined_risk_level |-> CombinedLevel(Len(all_risks)),
         total_risks_detected |-> Len(all_risks),
         consensus_risks |-> <<>>]

GeneralRecommendations ==
    << [priority |-> "medium",
        action |-> "Implement environmental monitoring system",
        source |-> "hybrid_intelligence",
        enhancement |-> "multi_modal_analysis"],
       [priority |-> "low",
        action |-> "Establish community environmental awareness program",
        source |-> "hybrid_intelligence",
        enhancement |-> "stakeholder_engagement"] >>

TopK == 5

\* lines 263-283 with the general recommendations put first
EnhancedRecommendations_general_first(cnn_recs) ==
    GeneralRecommendations
    \o [i \in 1..Len(cnn_recs) |->
            [priority |-> cnn_recs[i].priority,
             action |-> cnn_recs[i].action,
             source |-> "cnn_satellite_analysis",
             enhancement |-> "visual_pattern_based"]]

\* lines 263-283: the list before it is cut
EnhancedRecommendations(cnn_recs) ==
    [i \in 1..Len(cnn_recs) |->
        [priority |-> cnn_recs[i].priority,
         action |-> cnn_recs[i].action,
         source |-> "cnn_satellite_analysis",
         enhancement |-> "visual_pattern_based"]]
    \o GeneralRecommendations

_enhance_conservation_recommendations(cnn_recs) ==
    LET enhanced_recommendations == EnhancedRecommendations(cnn_recs)
    IN  [enhanced_recommendations |->
            SubSeq(enhanced_recommendations, 1,
                   Min(TopK, Len(enhanced_recommendations))),
         total_recommendations |-> Len(enhanced_recommendations)]

_calculate_fusion_confidence_raises(traditional, cnn) ==
    IF IsNone(traditional.environmental_score)
        \/ IsNone(cnn.environmental_score)
    THEN "TypeError"                                        \* None - x
    ELSE "none"

\* line 311 with the first comparison made inclusive
OverallFusionConfidence_inclusive(score_agreement) ==
    IF score_agreement >= F(80) THEN "high"
    ELSE IF score_agreement > F(60) THEN "medium"
    ELSE "low"

OverallFusionConfidence(score_agreement) ==
    IF score_agreement > F(80) THEN "high"
    ELSE IF score_agreement > F(60) THEN "medium"
    ELSE "low"

\* lines 298-299 without the "100 -"
ScoreAgreementPercentage_of_difference(traditional_score, cnn_score) ==
    Max(0, Min(F(100), Abs(traditional_score - cnn_score)))

\* lines 298-299
ScoreAgreementPercentage(traditional_score, cnn_score) ==
    Max(0, Min(F(100), F(100) - Abs(traditional_score - cnn_score)))

_calculate_fusion_confidence(traditional, cnn) ==
    LET traditional_score == Val(traditional.environmental_score)
        cnn_score == Val(cnn.environmental_score)
        score_agreement == ScoreAgreementPercentage(traditional_score, cnn_score)
    IN  [overall_fusion_confidence |-> OverallFusionConfidence(score_agreement),
         score_agreement_percentage |-> score_agreement,
         cnn_analysis_confidence |-> cnn.cnn_confidence]

_fuse_traditional_and_cnn_analysis_raises(traditional_data_, cnn_data_) ==
    LET e1 == _fuse_vegetation_analysis_raises(
                    traditional_data_.vegetation, cnn_data_.vegetation_analysis)
        e2 == _calculate_enhanced_environmental_score_raises(
                    traditional_data_.environmental_score,
                    cnn_data_.environmental_score)
        e3 == _combine_risk_assessments_raises(
                    traditional_data_, cnn_data_.environmental_risks)
        e4 == _calculate_fusion_confidence_raises(traditional_data_, cnn_data_)
    IN  IF e1 # "none" THEN e1
        ELSE IF e2 # "none" THEN e2
        ELSE IF e3 # "none" THEN e3
        ELSE e4

\* lines 102-125: the returned dict without its last key (and without
\* location, a copy of the arguments lat and lon)
FusedAnalysis(traditional_data_, cnn_data_) ==
    [enhanced_analysis_type |-> "traditional_ai_plus_cnn_fusion",
     fused_vegetation_analysis |->
        _fuse_vegetation_analysis(traditional_data_.vegetation,
                                  cnn_data_.vegetation_analysis),
     enhanced_environmental_score |->
        _calculate_enhanced_environmental_score(
            traditional_data_.environmental_score,
            cnn_data_.environmental_score),
     combined_risk_assessment |->
        _combine_risk_assessments(traditional_data_,
                                  cnn_data_.environmental_risks),
     enhanced_conservation_priorities |->
        _enhance_conservation_recommendations(
            cnn_data_.conservation_priorities),
     traditional_ai_analysis |-> traditional_data_,
     cnn_analysis |-> cnn_data_,
     fusion_confidence |->
        _calculate_fusion_confidence(traditional_data_, cnn_data_),
     data_integration_flow |-> "Multi-Modal Environmental Intelligence"]

\* the clock read into the agreement percentage as well as into line 127
_fuse_traditional_and_cnn_analysis_timed(traditional_data_, cnn_data_, clock) ==
    [FusedAnalysis(traditional_data_, cnn_data_)
        EXCEPT !.fusion_confidence.score_agreement_percentage = clock]
    @@ [timestamp |-> clock]

\* clock is the value of datetime.now() at line 127
_fuse_traditional_and_cnn_analysis(traditional_data_, cnn_data_, clock) ==
    FusedAnalysis(traditional_data_, cnn_data_) @@ [timestamp |-> clock]

----------------------------------------------------------------------------
(* Provider results the request can see.  environment.py returns a dict    *)
(* that always carries the key (get_air_quality 34-46, 524-535, 547-554;   *)
(* get_weather_data 117-128; get_satellite_vegetation 170-177, 243-252) or *)
(* None; vision.py returns the analysis of a real image or the result of   *)
(* _simulate_cnn_analysis.                                                 *)

AqiInputs == {0, 40, 120, 160}
TempInputs == {-15, 22, 38}
VegInputs == {10, 25, 65, 85}

AirQualityResults ==
    {None} \cup {Some([aqi |-> Some(F(a)), source |-> "WAQI"]) : a \in AqiInputs}

WeatherResults ==
    {None} \cup {Some([temperature |-> Some(F(t)), source |-> "Open-Meteo"]) :
                    t \in TempInputs}

VegetationResults ==
    {None} \cup {Some([vegetation_health |-> Some(F(v)),
                       vegetation_status |-> _classify_vegetation_health(F(v))]) :
                    v \in VegInputs}

HealthInputs == {10, 25, 65, 85}
ProbInputs == {5, 75}
NdviInputs == {-20, 60}
BiomassInputs == {F(20)}

CnnResults ==
    { [vegetation |-> [health_score |-> h, predicted_ndvi |-> n,
                       biomass_estimate |-> b],
       water |-> [water_presence_probability |-> w],
       urban |-> [urban_probability |-> u],
       deforestation |-> [deforestation_risk |-> d]] :
        h \in HealthInputs, n \in NdviInputs, b \in BiomassInputs,
        w \in ProbInputs, u \in ProbInputs, d \in ProbInputs }

----------------------------------------------------------------------------
(* The /analyze request: main.py analyze_environment calling               *)
(* get_enhanced_comprehensive_analysis, one action per statement of the    *)
(* engine.                                                                 *)

Init ==
    /\ pc = "request"
    /\ traditional_data = None
    /\ cnn_data = None
    /\ fused_vegetation = None
    /\ enhanced_score = None
    /\ combined_risks = None
    /\ fusion_confidence = None
    /\ enhanced_conservation = None
    /\ raised = "none"
    /\ response = 0
    /\ fn = "none"
    /\ args = <<>>
    /\ result = None
    /\ now = 0
    /\ frames = <<>>
    /\ conversation_history = <<>>

\* ai_brain.py line 27
GetTraditional ==
    /\ pc = "request"
    /\ \E a \in AirQualityResults, w \in WeatherResults,
          v \in VegetationResults :
            traditional_data' =
                Some(_get_traditional_environmental_data(a, w, v))
    /\ pc' = "traditional_done"
    /\ UNCHANGED <<cnn_data, fused_vegetation, enhanced_score, combined_risks,
                   fusion_confidence, enhanced_conservation, raised, response>>
    /\ UNCHANGED callvars

\* ai_brain.py line 30
AnalyzeImage ==
    /\ pc = "traditional_done"
    /\ \E real_image \in BOOLEAN, r \in CnnResults :
            cnn_data' = Some(analyze_satellite_image(real_image, r))
    /\ pc' = "fuse_vegetation"
    /\ UNCHANGED <<traditional_data, fused_vegetation, enhanced_score,
                   combined_risks, fusion_confidence, enhanced_conservation,
                   raised, response>>
    /\ UNCHANGED callvars

\* ai_brain.py lines 77-80
FuseVegetation ==
    /\ pc = "fuse_vegetation"
    /\ LET tv == Val(traditional_data).vegetation
           cv == Val(cnn_data).vegetation_analysis
           exc == _fuse_vegetation_analysis_raises(tv, cv)
       IN  IF exc = "none"
           THEN /\ fused_vegetation' = Some(_fuse_vegetation_analysis(tv, cv))
                /\ pc' = "enhanced_score"
                /\ raised' = raised
           ELSE /\ fused_vegetation' = fused_vegetation
                /\ pc' = "raised"
                /\ raised' = exc
    /\ UNCHANGED <<traditional_data, cnn_data, enhanced_score, combined_risks,
                   fusion_confidence, enhanced_conservation, response>>
    /\ UNCHANGED callvars

\* ai_brain.py lines 83-86
CalculateScore ==
    /\ pc = "enhanced_score"
    /\ LET t == Val(traditional_data).environmental_score
           c == Val(cnn_data).environmental_score
           exc == _calculate_enhanced_environmental_score_raises(t, c)
       IN  IF exc = "none"
           THEN /\ enhanced_score' =
                        Some(_calculate_enhanced_environmental_score(t, c))
                /\ pc' = "combine_risks"
                /\ raised' = raised
           ELSE /\ enhanced_score' = enhanced_score
                /\ pc' = "raised"
                /\ raised' = exc
    /\ UNCHANGED <<traditional_data, cnn_data, fused_vegetation, combined_risks,
                   fusion_confidence, enhanced_conservation, response>>
    /\ UNCHANGED callvars

\* ai_brain.py lines 89-92
CombineRisks ==
    /\ pc = "combine_risks"
    /\ LET t == Val(traditional_data)
           r == Val(cnn_data).environmental_risks
           exc == _combine_risk_assessments_raises(t, r)
       IN  IF exc = "none"
           THEN /\ combined_risks' = Some(_combine_risk_assessments(t, r))
                /\ pc' = "fusion_confidence"
                /\ raised' = raised
           ELSE /\ combined_risks' = combined_risks
                /\ pc' = "raised"
                /\ raised' = exc
    /\ UNCHANGED <<traditional_data, cnn_data, fused_vegetation, enhanced_score,
                   fusion_confidence, enhanced_conservation, response>>
    /\ UNCHANGED callvars

\* ai_brain.py line 95
FusionConfidence ==
    /\ pc = "fusion_confidence"
    /\ LET t == Val(traditional_data)
           c == Val(cnn_data)
           exc == _calculate_fusion_confidence_raises(t, c)
       IN  IF exc = "none"
           THEN /\ fusion_confidence' = Some(_calculate_fusion_confidence(t, c))
                /\ pc' = "enhance_conservation"
                /\ raised' = raised
           ELSE /\ fusion_confidence' = fusion_confidence
                /\ pc' = "raised"
                /\ raised' = exc
    /\ UNCHANGED <<traditional_data, cnn_data, fused_vegetation, enhanced_score,
                   combined_risks, enhanced_conservation, response>>
    /\ UNCHANGED callvars

\* ai_brain.py lines 98-128 and line 40: the fused analysis is returned
EnhanceConservation ==
    /\ pc = "enhance_conservation"
    /\ enhanced_conservation' =
            Some(_enhance_conservation_recommendations(
                    Val(cnn_data).conservation_priorities))
    /\ pc' = "fused"
    /\ UNCHANGED <<traditional_data, cnn_data, fused_vegetation, enhanced_score,
                   combined_risks, fusion_confidence, raised, response>>
    /\ UNCHANGED callvars

\* main.py lines 81-165: the reply built from the fused analysis
RespondOk ==
    /\ pc = "fused"
    /\ response' = 200
    /\ pc' = "done"
    /\ UNCHANGED <<traditional_data, cnn_data, fused_vegetation, enhanced_score,
                   combined_risks, fusion_confidence, enhanced_conservation,
                   raised>>
    /\ UNCHANGED callvars

\* main.py lines 167-171: except Exception
RespondError ==
    /\ pc = "raised"
    /\ response' = 500
    /\ pc' = "done"
    /\ UNCHANGED <<traditional_data, cnn_data, fused_vegetation, enhanced_score,
                   combined_risks, fusion_confidence, enhanced_conservation,
                   raised>>
    /\ UNCHANGED callvars

Next ==
    \/ GetTraditional
    \/ AnalyzeImage
    \/ FuseVegetation
    \/ CalculateScore
    \/ CombineRisks
    \/ FusionConfidence
    \/ EnhanceConservation
    \/ RespondOk
    \/ RespondError

Spec == Init /\ [][Next]_vars

(* The same request on a reading whose vegetation health is outside        *)
(* [0,100].  get_satellite_vegetation clamps its value (environment.py 168 *)
(* and 241), so this reading reaches the engine only from a provider other *)
(* than the bundled one; nothing in ai_brain.py looks at the range.        *)

MalformedVegInputs == {-20, 120, 150}
MalformedVegetationResults ==
    {Some([vegetation_health |-> Some(F(v)),
           vegetation_status |-> _classify_vegetation_health(F(v))]) :
        v \in MalformedVegInputs}

\* ai_brain.py line 27
GetMalformedTraditional ==
    /\ pc = "request"
    /\ \E a \in AirQualityResults, w \in WeatherResults,
          v \in MalformedVegetationResults :
            traditional_data' =
                Some(_get_traditional_environmental_data(a, w, v))
    /\ pc' = "traditional_done"
    /\ UNCHANGED <<cnn_data, fused_vegetation, enhanced_score, combined_risks,
                   fusion_confidence, enhanced_conservation, raised, response>>
    /\ UNCHANGED callvars

NextMalformed ==
    \/ GetMalformedTraditional
    \/ AnalyzeImage
    \/ FuseVegetation
    \/ CalculateScore
    \/ CombineRisks
    \/ FusionConfidence
    \/ EnhanceConservation
    \/ RespondOk
    \/ RespondError

SpecMalformed == Init /\ [][NextMalformed]_vars

----------------------------------------------------------------------------
(* The engine's functions called on their own, over grids of arguments.    *)

NoRequest ==
    /\ pc = "no_request"
    /\ traditional_data = None
    /\ cnn_data = None
    /\ fused_vegetation = None
    /\ enhanced_score = None
    /\ combined_risks = None
    /\ fusion_confidence = None
    /\ enhanced_conservation = None
    /\ raised = "none"
    /\ response = 0
    /\ fn = "pending"
    /\ result = None
    /\ now = 0
    /\ frames = <<>>
    /\ conversation_history = <<>>

\* what a function called on its own leaves alone
requestvars == <<pc, traditional_data, cnn_data, fused_vegetation,
                 enhanced_score, combined_risks, fusion_confidence,
                 enhanced_conservation, response, now, frames,
                 conversation_history>>

\* the call of function name with the outcome (exc, value)
Call(name, exc, value) ==
    /\ fn = "pending"
    /\ fn' = name
    /\ raised' = exc
    /\ result' = IF exc = "none" THEN Some(value) ELSE None
    /\ UNCHANGED <<requestvars, args>>

(* score fusion and the confidence estimator over pairs of scores *)

MaxScore == 100
Scores == {F(i) : i \in 0..MaxScore}
OptScores == {None} \cup {Some(x) : x \in Scores}

InitScores ==
    /\ NoRequest
    /\ args \in [traditional_score : OptScores, cnn_score : OptScores]

ApplyEnhancedScore ==
    /\ args.traditional_score \in OptScores
    /\ Call("_calculate_enhanced_environmental_score",
            _calculate_enhanced_environmental_score_raises(
                args.traditional_score, args.cnn_score),
            _calculate_enhanced_environmental_score(
                args.traditional_score, args.cnn_score))

ApplyFusionConfidence ==
    LET t == [environmental_score |-> args.traditional_score]
        c == [environmental_score |-> args.cnn_score,
              cnn_confidence |-> IF IsNone(args.cnn_score)
                                 THEN _simulate_cnn_analysis.cnn_confidence
                                 ELSE [vegetation_model |-> "high",
                                       water_detection |-> "high",
                                       urban_classification |-> "medium",
                                       deforestation_detection |-> "high"]]
    IN  /\ args.traditional_score \in OptScores
        /\ Call("_calculate_fusion_confidence",
                _calculate_fusion_confidence_raises(t, c),
                _calculate_fusion_confidence(t, c))

NextScores == ApplyEnhancedScore \/ ApplyFusionConfidence

SpecScores == InitScores /\ [][NextScores]_vars

(* vegetation fusion over a traditional vegetation dict and a vision result *)

MaxPercent == 100
VegetationDicts ==
    {None} \cup {Some([vegetation_health |-> Some(F(v)),
                       vegetation_status |-> _classify_vegetation_health(F(v))]) :
                    v \in 0..MaxPercent}

VegCnnResults ==
    { [vegetation |-> [health_score |-> h, predicted_ndvi |-> n,
                       biomass_estimate |-> F(20)],
       water |-> [water_presence_probability |-> 50],
       urban |-> [urban_probability |-> 50],
       deforestation |-> [deforestation_risk |-> 50]] :
        h \in 0..MaxPercent, n \in NdviInputs }

InitVegetation ==
    /\ NoRequest
    /\ \E tv \in VegetationDicts, r \in VegCnnResults, real \in BOOLEAN :
        /\ real \/ r = CHOOSE r0 \in VegCnnResults : TRUE
        /\ args = [traditional_veg |-> tv, real_image |-> real,
                   cnn_results |-> r]

ApplyFuseVegetation ==
    LET cv == analyze_satellite_image(args.real_image, args.cnn_results)
                .vegetation_analysis
    IN  /\ args.traditional_veg \in VegetationDicts
        /\ Call("_fuse_vegetation_analysis",
                _fuse_vegetation_analysis_raises(args.traditional_veg, cv),
                _fuse_vegetation_analysis(args.traditional_veg, cv))

NextVegetation == ApplyFuseVegetation

SpecVegetation == InitVegetation /\ [][NextVegetation]_vars

(* the score aggregator over reading dicts, every shape of dict included:  *)
(* None, the empty dict, a dict without the key, a dict with the key       *)

MaxAqiTens == 20
MaxTempSteps == 18
MaxVegTens == 10

AirQualityDicts ==
    {None, Some(<<>>), Some([source |-> "WAQI"])}
    \cup {Some([aqi |-> Some(F(10 * i)), source |-> "WAQI"]) :
            i \in 0..MaxAqiTens}

WeatherDicts ==
    {None, Some(<<>>), Some([source |-> "Open-Meteo"])}
    \cup {Some([temperature |-> Some(F(5 * i - 30)), source |-> "Open-Meteo"]) :
            i \in 0..MaxTempSteps}

ReadingVegetationDicts ==
    {None, Some(<<>>), Some([source |-> "NASA-MODIS-Real"])}
    \cup {Some([vegetation_health |-> Some(F(10 * i)),
                source |-> "NASA-MODIS-Real"]) : i \in 0..MaxVegTens}

InitAggregator ==
    /\ NoRequest
    /\ args \in [air_quality : AirQualityDicts, weather : WeatherDicts,
                 vegetation : ReadingVegetationDicts]

ApplyTraditionalData ==
    /\ args.air_quality \in AirQualityDicts
    /\ Call("_get_traditional_environmental_data", "none",
            _get_traditional_environmental_data(
                args.air_quality, args.weather, args.vegetation))

NextAggregator == ApplyTraditionalData

SpecAggregator == InitAggregator /\ [][NextAggregator]_vars

(* the two verdicts of one fusion (ai_brain.py lines 83-86 and 95) on the   *)
(* same pair of scores                                                     *)

InitVerdicts ==
    /\ NoRequest
    /\ args \in [traditional_score : Scores, cnn_score : Scores]

ApplyBothVerdicts ==
    LET t == [environmental_score |-> Some(args.traditional_score)]
        c == [environmental_score |-> Some(args.cnn_score),
              cnn_confidence |-> [vegetation_model |-> "high",
                                  water_detection |-> "high",
                                  urban_classification |-> "medium",
                                  deforestation_detection |-> "high"]]
    IN  /\ args.traditional_score \in Scores
        /\ Call("_fuse_traditional_and_cnn_analysis", "none",
                [enhanced_environmental_score |->
                    _calculate_enhanced_environmental_score(
                        t.environmental_score, c.environmental_score),
                 fusion_confidence |-> _calculate_fusion_confidence(t, c)])

NextVerdicts == ApplyBothVerdicts

SpecVerdicts == InitVerdicts /\ [][NextVerdicts]_vars

(* score fusion and the confidence estimator, each called on two pairs of   *)
(* scores                                                                  *)

MaxScoreTens == 10
ScoreTens == {F(10 * i) : i \in 0..MaxScoreTens}
ScorePairs == [traditional_score : ScoreTens, cnn_score : ScoreTens]

InitScorePairs ==
    /\ NoRequest
    /\ args \in [first : ScorePairs, second : ScorePairs]

\* both calls of f, as the pair of their results
CallOnBoth(name, f(_, _)) ==
    Call(name, "none",
         <<f(Some(args.first.traditional_score), Some(args.first.cnn_score)),
           f(Some(args.second.traditional_score),
             Some(args.second.cnn_score))>>)

ApplyEnhancedScoreTwice ==
    /\ args.first \in ScorePairs
    /\ CallOnBoth("_calculate_enhanced_environmental_score",
                  _calculate_enhanced_environmental_score)

ApplyFusionConfidenceTwice ==
    LET confidence(t, c) ==
            _calculate_fusion_confidence(
                [environmental_score |-> t],
                [environmental_score |-> c,
                 cnn_confidence |-> [vegetation_model |-> "high",
                                     water_detection |-> "high",
                                     urban_classification |-> "medium",
                                     deforestation_detection |-> "high"]])
    IN  /\ args.first \in ScorePairs
        /\ CallOnBoth("_calculate_fusion_confidence", confidence)

NextScorePairs == ApplyEnhancedScoreTwice \/ ApplyFusionConfidenceTwice

SpecScorePairs == InitScorePairs /\ [][NextScorePairs]_vars

(* recommendation fusion over lists of vision recommendations *)

MaxRecs == 4
VisionRecommendations ==
    { [priority |-> "high",
       action |-> "Protect existing high-quality vegetation"],
      [priority |-> "high",
       action |-> "Implement vegetation restoration program"],
      [priority |-> "medium",
       action |-> "Implement water conservation measures"],
      [priority |-> "medium",
       action |-> "Enhance carbon sequestration programs"] }

InitRecommendations ==
    /\ NoRequest
    /\ \E n \in 0..MaxRecs :
            args \in [cnn_recs : [1..n -> VisionRecommendations]]

ApplyEnhanceConservation ==
    /\ args.cnn_recs \in Seq(VisionRecommendations)
    /\ Call("_enhance_conservation_recommendations", "none",
            _enhance_conservation_recommendations(args.cnn_recs))

NextRecommendations == ApplyEnhanceConservation

SpecRecommendations == InitRecommendations /\ [][NextRecommendations]_vars

(* the fusion run twice on the same resolved reading and vision            *)
(* assessment, the clock moving in between; result is the list of the      *)
(* outcomes of the runs                                                    *)

MaxClock == 2
MaxRuns == 2
ResolvedReadings ==
    { _get_traditional_environmental_data(a, w, v) :
        a \in AirQualityResults, w \in WeatherResults,
        v \in VegetationResults }
ResolvedVisionAssessments ==
    { analyze_satellite_image(real_image, r) :
        real_image \in BOOLEAN, r \in CnnResults }

InitDeterminism ==
    /\ pc = "no_request"
    /\ traditional_data = None
    /\ cnn_data = None
    /\ fused_vegetation = None
    /\ enhanced_score = None
    /\ combined_risks = None
    /\ fusion_confidence = None
    /\ enhanced_conservation = None
    /\ raised = "none"
    /\ response = 0
    /\ fn = "pending"
    /\ args \in [traditional_data : ResolvedReadings,
                 cnn_data : ResolvedVisionAssessments]
    /\ result = <<>>
    /\ now = 0
    /\ frames = <<>>
    /\ conversation_history = <<>>

Tick ==
    /\ now < MaxClock
    /\ now' = now + 1
    /\ UNCHANGED <<pc, traditional_data, cnn_data, fused_vegetation,
                   enhanced_score, combined_risks, fusion_confidence,
                   enhanced_conservation, raised, response, fn, args, result,
                   frames, conversation_history>>

RunFusion ==
    /\ Len(result) < MaxRuns
    /\ LET exc == _fuse_traditional_and_cnn_analysis_raises(
                        args.traditional_data, args.cnn_data)
       IN  /\ raised' = exc
           /\ result' = Append(result,
                IF exc = "none"
                THEN Some(_fuse_traditional_and_cnn_analysis(
                            args.traditional_data, args.cnn_data, now))
                ELSE None)
    /\ fn' = "_fuse_traditional_and_cnn_analysis"
    /\ UNCHANGED <<requestvars, args>>

NextDeterminism == Tick \/ RunFusion

SpecDeterminism == InitDeterminism /\ [][NextDeterminism]_vars

(* risk combination swept over every reading and every image of the grids, *)
(* one after the other in a single behaviour                               *)

SweepDomains == <<AqiInputs, TempInputs, VegInputs, HealthInputs, ProbInputs,
                  ProbInputs, ProbInputs>>
MinOf(S) == CHOOSE x \in S : \A y \in S : x <= y
MaxOf(S) == CHOOSE x \in S : \A y \in S : x >= y
SweepFirst == [i \in 1..Len(SweepDomains) |-> MinOf(SweepDomains[i])]
SweepLast(x) == \A i \in 1..Len(SweepDomains) : x[i] = MaxOf(SweepDomains[i])

\* the grid point after x, counting up from position i leftwards
RECURSIVE SweepAdvance(_, _)
SweepAdvance(x, i) ==
    IF i = 0 THEN x
    ELSE IF x[i] = MaxOf(SweepDomains[i])
         THEN SweepAdvance([x EXCEPT ![i] = MinOf(SweepDomains[i])], i - 1)
         ELSE [x EXCEPT ![i] = MinOf({y \in SweepDomains[i] : y > x[i]})]

SweepReading(x) ==
    _get_traditional_environmental_data(
        Some([aqi |-> Some(F(x[1])), source |-> "WAQI"]),
        Some([temperature |-> Some(F(x[2])), source |-> "Open-Meteo"]),
        Some([vegetation_health |-> Some(F(x[3])),
              vegetation_status |-> _classify_vegetation_health(F(x[3]))]))

SweepVisionRisks(x) ==
    analyze_satellite_image(TRUE,
        [vegetation |-> [health_score |-> x[4],
                         predicted_ndvi |-> MaxOf(NdviInputs),
                         biomass_estimate |-> F(20)],
         water |-> [water_presence_probability |-> x[5]],
         urban |-> [urban_probability |-> x[6]],
         deforestation |-> [deforestation_risk |-> x[7]]]).environmental_risks

InitConsensusSweep ==
    /\ NoRequest
    /\ args = SweepFirst

ApplyCombineRisks ==
    /\ Len(args) = Len(SweepDomains)
    /\ Call("_combine_risk_assessments",
            _combine_risk_assessments_raises(SweepReading(args),
                                             SweepVisionRisks(args)),
            _combine_risk_assessments(SweepReading(args),
                                      SweepVisionRisks(args)))

NextSweepInput ==
    /\ fn = "_combine_risk_assessments"
    /\ ~SweepLast(args)
    /\ args' = SweepAdvance(args, Len(SweepDomains))
    /\ fn' = "pending"
    /\ raised' = "none"
    /\ result' = None
    /\ UNCHANGED requestvars

NextConsensusSweep == ApplyCombineRisks \/ NextSweepInput

SpecConsensusSweep ==
    InitConsensusSweep /\ [][NextConsensusSweep]_vars
        /\ WF_vars(NextConsensusSweep)

----------------------------------------------------------------------------
(* Backend/services/environment.py: the source-fallback chains of the      *)
(* reading provider.  An upstream answer is None when the HTTP call        *)
(* failed, timed out or came back without usable data.                     *)

RECURSIVE SumValues(_)
SumValues(values) ==
    IF values = <<>> THEN 0 ELSE Head(values) + SumValues(Tail(values))

\* lines 507-520: the average of the values given for a parameter, None if
\* no station gave one
Averaged(results, parameter) ==
    LET given == SelectSeq(results, LAMBDA m : m.parameter = parameter
                                                /\ ~IsNone(m.value))
        values == [i \in 1..Len(given) |-> Val(given[i].value)]
    IN  IF values = <<>> THEN None ELSE Some(SumValues(values) \div Len(values))

\* "x or 0" for a number or None
OrZero(o) == IF IsNone(o) THEN 0 ELSE Val(o)

_process_openaq_v3_data(results) ==
    IF results = <<>> THEN None
    ELSE Some([aqi |-> Some(OrZero(Averaged(results, "pm25")) * 2),
               pm25 |-> Averaged(results, "pm25"),
               pm10 |-> Averaged(results, "pm10"),
               source |-> "OpenAQ-v3"])

_process_purpleair_data(sensor_data) ==
    LET pm25_10min == sensor_data.pm25_10min
    IN  IF IsNone(pm25_10min) THEN None
        ELSE Some([aqi |-> Some(OrZero(pm25_10min) * 2),
                   pm25 |-> pm25_10min,
                   source |-> "PurpleAir"])

\* waqi: the 'data' object of the WAQI answer; openaq: the 'results' list;
\* purpleair: the first sensor of the PurpleAir answer
get_air_quality(waqi, openaq, purpleair) ==
    IF Truthy(waqi)
    THEN Some([aqi |-> DictGet(Val(waqi), "aqi", Some(0)),
               station |-> DictGet(Val(waqi), "station", Some("Unknown")),
               source |-> "WAQI"])
    ELSE IF ~IsNone(openaq) /\ Val(openaq) # <<>>
    THEN _process_openaq_v3_data(Val(openaq))
    ELSE IF ~IsNone(purpleair)
    THEN _process_purpleair_data(Val(purpleair))
    ELSE None

_classify_climate_zone(lat) ==
    IF Abs(lat) * 10 <= 235 THEN "tropical"
    ELSE IF Abs(lat) <= 35 THEN "arid"
    ELSE IF Abs(lat) <= 50 THEN "temperate"
    ELSE IF Abs(lat) * 10 <= 665 THEN "continental"
    ELSE "arctic"

\* lines 195-233, in hundredths of a percent
BaseVegetation(climate_zone, month) ==
    IF climate_zone = "tropical"
    THEN IF month \in {6, 7, 8, 9, 10} THEN F(85) ELSE F(72)
    ELSE IF climate_zone = "temperate"
    THEN IF month \in {4, 5, 6, 7, 8, 9}
         THEN IF month \in {6, 7, 8} THEN Mul(F(78), 120) ELSE F(78)
         ELSE IF month \in {10, 11} THEN F(55) ELSE F(35)
    ELSE IF climate_zone = "arid"
    THEN IF month \in {3, 4, 5} THEN F(35) ELSE F(22)
    ELSE IF climate_zone = "continental"
    THEN IF month \in {5, 6, 7, 8, 9} THEN F(82)
         ELSE IF month \in {4, 10} THEN F(58) ELSE F(25)
    ELSE IF month \in {6, 7, 8} THEN F(45) ELSE F(15)

\* lines 183-252 away from the cities of _get_urban_factor (factor 1.0);
\* lat in whole degrees
GeographicVegetation(lat, month) ==
    LET elevation_factor == Max(700, 1000 - Abs(lat) * 5)
        vegetation_health ==
            (BaseVegetation(_classify_climate_zone(lat), month)
                * elevation_factor) \div 1000
        bounded == Max(F(5), Min(F(95), vegetation_health))
    IN  Some([vegetation_health |-> Some(bounded),
              vegetation_status |-> _classify_vegetation_health(bounded),
              source |-> "Geographic-Climate-Analysis"])

\* modis: the NDVI of the latest MOD13Q1 subset (ten-thousandths)
get_satellite_vegetation(modis, lat, month) ==
    IF ~IsNone(modis) /\ Val(modis) # 0
    THEN LET vegetation_health == Max(0, Min(F(100), Val(modis)))
         IN  Some([vegetation_health |-> Some(vegetation_health),
                   vegetation_status |->
                        _classify_vegetation_health(vegetation_health),
                   source |-> "NASA-MODIS-Real"])
    ELSE GeographicVegetation(lat, month)

WaqiAnswers ==
    {None, Some([station |-> Some("Station")])}
    \cup {Some([aqi |-> Some(F(a)), station |-> Some("Station")]) :
            a \in {0, 40, 160}}
OpenaqAnswers ==
    {None,
     Some(<<[parameter |-> "pm10", value |-> Some(F(30))]>>),
     Some(<<[parameter |-> "pm25", value |-> Some(F(20))],
            [parameter |-> "pm25", value |-> Some(F(40))],
            [parameter |-> "pm10", value |-> Some(F(30))]>>)}
PurpleairAnswers ==
    {None, Some([pm25_10min |-> None]), Some([pm25_10min |-> Some(F(60))])}
ModisAnswers == {None, Some(0), Some(-2000), Some(2500), Some(6500)}
ProviderLatitudes == {0, 30, 40, 60, 80}
ProviderMonths == {1, 4, 7, 10}

InitProvider ==
    /\ NoRequest
    /\ args \in [waqi : WaqiAnswers, openaq : OpenaqAnswers,
                 purpleair : PurpleairAnswers, modis : ModisAnswers,
                 lat : ProviderLatitudes, month : ProviderMonths]

ApplyGetAirQuality ==
    /\ args.waqi \in WaqiAnswers
    /\ Call("get_air_quality", "none",
            get_air_quality(args.waqi, args.openaq, args.purpleair))

ApplyGetSatelliteVegetation ==
    /\ args.modis \in ModisAnswers
    /\ Call("get_satellite_vegetation", "none",
            get_satellite_vegetation(args.modis, args.lat, args.month))

NextProvider == ApplyGetAirQuality \/ ApplyGetSatelliteVegetation

SpecProvider == InitProvider /\ [][NextProvider]_vars

----------------------------------------------------------------------------
(* Backend/services/conversation.py: the conversation memory *)

max_history_length == 10

\* list[-n:]
LastN(list, n) ==
    IF Len(list) <= n THEN list ELSE SubSeq(list, Len(list) - n + 1, Len(list))

_store_conversation_exchange(history, conversation_id, user_message) ==
    LET stored == DictGet(history, conversation_id, <<>>)
        exchange == [user_message |-> user_message,
                     exchange_id |-> Len(stored) + 1]
        appended == Append(stored, exchange)
        limited == IF Len(appended) > max_history_length
                   THEN LastN(appended, max_history_length)
                   ELSE appended
    IN  [k \in DOMAIN history \cup {conversation_id} |->
            IF k = conversation_id THEN limited ELSE history[k]]

ConversationIds == {"conversation-a", "conversation-b"}
UserMessages == {"How is the air today?"}

InitConversation ==
    /\ NoRequest
    /\ args = <<>>

\* responds: generate_aiva_response returned; if it raised, line 120 catches
\* and nothing is stored
StartConversation ==
    /\ \E conversation_id \in ConversationIds, user_message \in UserMessages,
          responds \in BOOLEAN :
        LET stored == IF responds
                      THEN _store_conversation_exchange(
                                conversation_history, conversation_id,
                                user_message)
                      ELSE conversation_history
        IN  /\ conversation_history' = stored
            /\ args' = [conversation_id |-> conversation_id,
                        user_message |-> user_message]
            /\ result' = Some([success |-> responds,
                               conversation_length |->
                                    Len(DictGet(stored, conversation_id, <<>>))])
    /\ fn' = "start_conversation"
    /\ UNCHANGED <<pc, traditional_data, cnn_data, fused_vegetation,
                   enhanced_score, combined_risks, fusion_confidence,
                   enhanced_conservation, raised, response, now, frames>>

NextConversation == StartConversation

SpecConversation == InitConversation /\ [][NextConversation]_vars

----------------------------------------------------------------------------
(* Several requests running at once on the one engine object of main.py    *)
(* line 20, their statements of get_enhanced_comprehensive_analysis        *)
(* interleaved.  The engine's attributes (ai_brain.py 14-15) are assigned  *)
(* in __init__ only; a request keeps what it computes in local variables.  *)
(* args[r] is what the providers return to request r.                      *)

NumRequests == 2
Requests == 1..NumRequests

ReentrantReadings ==
    { _get_traditional_environmental_data(
            a, Some([temperature |-> Some(F(22)), source |-> "Open-Meteo"]),
            Some([vegetation_health |-> Some(F(65)),
                  vegetation_status |-> _classify_vegetation_health(F(65))])) :
        a \in {None, Some([aqi |-> Some(F(40)), source |-> "WAQI"]),
                     Some([aqi |-> Some(F(160)), source |-> "WAQI"])} }
ReentrantVisionAssessments ==
    { analyze_satellite_image(TRUE, r) :
        r \in {c \in CnnResults :
                /\ c.vegetation.predicted_ndvi = MaxOf(NdviInputs)
                /\ c.water.water_presence_probability = MinOf(ProbInputs)
                /\ c.urban.urban_probability = MinOf(ProbInputs)
                /\ c.deforestation.deforestation_risk = MinOf(ProbInputs)
                /\ c.vegetation.health_score
                        \in {MinOf(HealthInputs), MaxOf(HealthInputs)}} }

NewFrame ==
    [line |-> 27, traditional_analysis |-> None, cnn_analysis |-> None,
     fused_analysis |-> None, raised |-> "none"]

InitReentrant ==
    /\ pc = "no_request"
    /\ traditional_data = None
    /\ cnn_data = None
    /\ fused_vegetation = None
    /\ enhanced_score = None
    /\ combined_risks = None
    /\ fusion_confidence = None
    /\ enhanced_conservation = None
    /\ raised = "none"
    /\ response = 0
    /\ fn = "get_enhanced_comprehensive_analysis"
    /\ args \in [Requests -> [traditional_data : ReentrantReadings,
                               cnn_data : ReentrantVisionAssessments]]
    /\ result = None
    /\ now = 0
    /\ frames = [r \in Requests |-> NewFrame]
    /\ conversation_history = <<>>

\* an assignment kept on the engine object, where every request sees it
StoreLocal_on_engine(frames_, r, name, value) ==
    [q \in DOMAIN frames_ |-> [frames_[q] EXCEPT ![name] = value]]

\* an assignment to a local variable of request r (lines 27, 30, 33)
StoreLocal(frames_, r, name, value) ==
    [frames_ EXCEPT ![r][name] = value]

Goto(frames_, r, line) == [frames_ EXCEPT ![r].line = line]

reentrantvars == <<pc, traditional_data, cnn_data, fused_vegetation,
                   enhanced_score, combined_risks, fusion_confidence,
                   enhanced_conservation, raised, response, fn, args, result,
                   now, conversation_history>>

\* ai_brain.py line 27
RequestTraditional(r) ==
    /\ frames[r].line = 27
    /\ frames' = Goto(StoreLocal(frames, r, "traditional_analysis",
                                 Some(args[r].traditional_data)), r, 30)
    /\ UNCHANGED reentrantvars

\* ai_brain.py line 30
RequestVision(r) ==
    /\ frames[r].line = 30
    /\ frames' = Goto(StoreLocal(frames, r, "cnn_analysis",
                                 Some(args[r].cnn_data)), r, 33)
    /\ UNCHANGED reentrantvars

\* ai_brain.py lines 33-40
RequestFuse(r) ==
    /\ frames[r].line = 33
    /\ LET t == Val(frames[r].traditional_analysis)
           c == Val(frames[r].cnn_analysis)
           exc == _fuse_traditional_and_cnn_analysis_raises(t, c)
       IN  frames' =
            IF exc = "none"
            THEN Goto(StoreLocal(frames, r, "fused_analysis",
                        Some(_fuse_traditional_and_cnn_analysis(t, c, now))),
                      r, 40)
            ELSE Goto([frames EXCEPT ![r].raised = exc], r, 40)
    /\ UNCHANGED reentrantvars

NextReentrant ==
    \E r \in Requests :
        RequestTraditional(r) \/ RequestVision(r) \/ RequestFuse(r)

SpecReentrant == InitReentrant /\ [][NextReentrant]_vars

----------------------------------------------------------------------------
(* Coordinates: main.py reading them from the request body, and            *)
(* satellite.py turning them into a NASA GIBS tile.  A coordinate is an    *)
(* integer number of ten-thousandths of a degree.                          *)

Deg(n) == n * 10000
DefaultLat == 407128
DefaultLon == -740060

\* Python's truth value of dict.get(key) for a number or None
NumberTruthy(o) == ~IsNone(o) /\ Val(o) # 0

\* main.py lines 66-67 and 180-181: data.get(key) or data.get(short, default)
RequestCoordinate(data, key, short, default) ==
    IF NumberTruthy(DictGet(data, key, None))
    THEN Val(DictGet(data, key, None))
    ELSE Val(DictGet(data, short, Some(default)))

\* satellite.py lines 75-86: the '250m' matrix, (width, height) by zoom
GibsTileMatrix250m ==
    [z \in 0..8 |->
        <<<<2, 1>>, <<3, 2>>, <<5, 3>>, <<10, 5>>, <<20, 10>>, <<40, 20>>,
          <<80, 40>>, <<160, 80>>, <<320, 160>>>>[z + 1]]

_deg2tile_epsg4326(lat, lon, zoom) ==
    LET lat_ == Max(Min(lat, Deg(90)), Deg(-90))
        lon_ == ((lon + Deg(180)) % Deg(360)) - Deg(180)
        matrix_width == GibsTileMatrix250m[zoom][1]
        matrix_height == GibsTileMatrix250m[zoom][2]
        x == ((lon_ + Deg(180)) * matrix_width) \div Deg(360)
        y == ((Deg(90) - lat_) * matrix_height) \div Deg(180)
    IN  <<Max(0, Min(x, matrix_width - 1)), Max(0, Min(y, matrix_height - 1))>>

LatInputs == {-95, -90, 0, 45, 90, 95}
LonInputs == {-190, -180, 0, 100, 180, 190}
ShortLatInputs == {0, 45}
ShortLonInputs == {0, 100}

\* a dict with the keys of fields whose value is given
DictOf(fields) ==
    [k \in {f \in DOMAIN fields : ~IsNone(fields[f])} |-> fields[k]]

RequestBodies ==
    { DictOf([latitude |-> a, lat |-> b, longitude |-> c, lon |-> d]) :
        a \in {None} \cup {Some(Deg(x)) : x \in LatInputs},
        b \in {None} \cup {Some(Deg(x)) : x \in ShortLatInputs},
        c \in {None} \cup {Some(Deg(x)) : x \in LonInputs},
        d \in {None} \cup {Some(Deg(x)) : x \in ShortLonInputs} }

InitCoordinates ==
    /\ NoRequest
    /\ args \in RequestBodies

\* the coordinates the handler hands to the providers
ReadCoordinates(name) ==
    /\ fn = "pending"
    /\ fn' = name
    /\ raised' = "none"
    /\ result' = Some([lat |-> RequestCoordinate(args, "latitude", "lat",
                                                 DefaultLat),
                       lon |-> RequestCoordinate(args, "longitude", "lon",
                                                 DefaultLon)])
    /\ UNCHANGED <<requestvars, args>>

\* main.py lines 62-79
AnalyzeReadsCoordinates ==
    /\ args \in RequestBodies
    /\ ReadCoordinates("analyze_environment")

\* main.py lines 179-191
QuickScanReadsCoordinates ==
    /\ args \in RequestBodies
    /\ ReadCoordinates("quick_environmental_scan")

\* satellite.py line 149, for whichever zoom the fetch loop has come to
ComputeTile ==
    /\ fn = "analyze_environment"
    /\ \E z \in DOMAIN GibsTileMatrix250m :
            result' = Some([lat |-> Val(result).lat, lon |-> Val(result).lon,
                            zoom |-> z,
                            tile |-> _deg2tile_epsg4326(Val(result).lat,
                                                        Val(result).lon, z)])
    /\ fn' = "_deg2tile_epsg4326"
    /\ UNCHANGED <<requestvars, args, raised>>

NextCoordinates ==
    AnalyzeReadsCoordinates \/ QuickScanReadsCoordinates \/ ComputeTile

SpecCoordinates == InitCoordinates /\ [][NextCoordinates]_vars

----------------------------------------------------------------------------
(* Properties *)

\* which side of a finished request had nothing to give
TraditionalUnavailable == IsNone(Val(traditional_data).environmental_score)
VisionUnavailable == IsNone(Val(cnn_data).environmental_score)
Emitted ==
    /\ response = 200
    /\ raised = "none"
    /\ ~IsNone(fused_vegetation)
    /\ ~IsNone(enhanced_score)
    /\ ~IsNone(combined_risks)
    /\ ~IsNone(fusion_confidence)
    /\ ~IsNone(enhanced_conservation)

\* C1: for traditional and vision scores both present and in [0,100], the
\* fused value is 0.6*vision + 0.4*traditional, the delta is their absolute
\* difference, and the agreement tier is high below 10, medium below 20 and
\* low_agreement from 20 on.
C1_ScoreFusion ==
    (/\ fn = "_calculate_enhanced_environmental_score"
     /\ ~IsNone(args.traditional_score) /\ ~IsNone(args.cnn_score)
     /\ Val(args.traditional_score) \in 0..F(100)
     /\ Val(args.cnn_score) \in 0..F(100))
    => /\ raised = "none"
       /\ ~IsNone(result)
       /\ LET t == Val(args.traditional_score)
              v == Val(args.cnn_score)
              delta == IF t >= v THEN t - v ELSE v - t
              r == Val(result)
          IN  /\ 100 * r.enhanced_score = 60 * v + 40 * t
              /\ r.score_difference = delta
              /\ r.traditional_ai_score = t
              /\ r.cnn_ai_score = v
              /\ delta < F(10) => r.score_agreement = "high"
              /\ (delta >= F(10) /\ delta < F(20))
                    => r.score_agreement = "medium"
              /\ delta >= F(20) => r.score_agreement = "low_agreement"

\* scenario A: 70 and 75 give delta 5, high, 73.0
C1_Witness ==
    /\ fn = "_calculate_enhanced_environmental_score"
    /\ args.traditional_score = Some(F(70))
    /\ args.cnn_score = Some(F(75))
    /\ result = Some([enhanced_score |-> F(73), traditional_ai_score |-> F(70),
                      cnn_ai_score |-> F(75), score_agreement |-> "high",
                      score_difference |-> F(5)])

\* C2: when exactly one of the two sources is unavailable, the request ends
\* without any error and with a fused assessment built from the other one.
C2_PartialDataNeverRaises ==
    (pc = "done" /\ (TraditionalUnavailable # VisionUnavailable)) => Emitted

\* C3: single-source exactness.  With the vision assessment absent the fused
\* health is the traditional health and the fused score the traditional
\* score; with the traditional side absent the fused health is the vision
\* health as a percentage and the fused score the vision score.
C3_SingleSourceExactness ==
    pc = "done" =>
        /\ (VisionUnavailable /\ ~TraditionalUnavailable) =>
            /\ ~IsNone(fused_vegetation)
            /\ Val(fused_vegetation).fused_health_score =
                    Val(Val(Val(traditional_data).vegetation).vegetation_health)
            /\ ~IsNone(enhanced_score)
            /\ Val(enhanced_score).enhanced_score =
                    Val(Val(traditional_data).environmental_score)
        /\ (TraditionalUnavailable /\ ~VisionUnavailable) =>
            /\ ~IsNone(fused_vegetation)
            /\ Val(fused_vegetation).fused_health_score =
                    Val(Val(cnn_data).vegetation_analysis.cnn_health_score)
            /\ ~IsNone(enhanced_score)
            /\ Val(enhanced_score).enhanced_score =
                    Val(Val(cnn_data).environmental_score)

\* C4: a request ends in the typed failure AssessmentUnavailable, with no
\* fused assessment, exactly when both sources are unavailable.
C4_TypedUnavailable ==
    pc = "done" =>
        /\ (TraditionalUnavailable /\ VisionUnavailable)
                <=> raised = "AssessmentUnavailable"
        /\ (TraditionalUnavailable /\ VisionUnavailable) => ~Emitted

\* C5: the terminal state of a request is fixed by source availability: a
\* fused assessment when both sources or one source is ready, the typed
\* failure AssessmentUnavailable when none is, and nothing else.
C5_TerminalByAvailability ==
    pc = "done" =>
        LET ready == (IF TraditionalUnavailable THEN 0 ELSE 1)
                        + (IF VisionUnavailable THEN 0 ELSE 1)
        IN  /\ ready = 2 => Emitted
            /\ ready = 1 => Emitted
            /\ ready = 0 => (response # 200
                             /\ raised = "AssessmentUnavailable")
            /\ raised \in {"none", "AssessmentUnavailable"}

\* C6: for traditional and vision scores both present and in [0,100], the
\* fused score lies in [0,100].
C6_FusedScoreInRange ==
    (/\ fn = "_calculate_enhanced_environmental_score"
     /\ ~IsNone(args.traditional_score) /\ ~IsNone(args.cnn_score)
     /\ Val(args.traditional_score) \in 0..F(100)
     /\ Val(args.cnn_score) \in 0..F(100))
    => /\ ~IsNone(result)
       /\ Val(result).enhanced_score >= 0
       /\ Val(result).enhanced_score <= F(100)

\* both scores 100: the fused score is at the upper end of the range
C6_Witness ==
    /\ fn = "_calculate_enhanced_environmental_score"
    /\ args.traditional_score = Some(F(100))
    /\ args.cnn_score = Some(F(100))
    /\ ~IsNone(result)
    /\ Val(result).enhanced_score = F(100)

\* a reading field is present: its dict is there, has the key, and the value
\* is a number
FieldPresent(d, k) == ~IsNone(d) /\ k \in DOMAIN Val(d) /\ ~IsNone(Val(d)[k])

\* C7: with aqi, temperature and vegetation health all present the
\* traditional score is 0.3*(100 - max(0, aqi - 50)) + 0.5*vegetationHealth
\* + 0.2*max(0, 50 - |temperature - 22|).
C7_TraditionalScoreFormula ==
    (/\ fn = "_get_traditional_environmental_data"
     /\ FieldPresent(args.air_quality, "aqi")
     /\ FieldPresent(args.weather, "temperature")
     /\ FieldPresent(args.vegetation, "vegetation_health"))
    => /\ ~IsNone(result)
       /\ ~IsNone(Val(result).environmental_score)
       /\ LET aqi == Val(Val(args.air_quality).aqi)
              temp == Val(Val(args.weather).temperature)
              veg == Val(Val(args.vegetation).vegetation_health)
              over == IF aqi - F(50) > 0 THEN aqi - F(50) ELSE 0
              dist == IF temp >= F(22) THEN temp - F(22) ELSE F(22) - temp
              comfort == IF F(50) - dist > 0 THEN F(50) - dist ELSE 0
          IN  100 * Val(Val(result).environmental_score) =
                30 * (F(100) - over) + 50 * veg + 20 * comfort

\* aqi 120, 20 degrees, vegetation 60: 0.3*30 + 0.5*60 + 0.2*48 = 48.6
C7_Witness ==
    /\ fn = "_get_traditional_environmental_data"
    /\ FieldPresent(args.air_quality, "aqi")
    /\ Val(Val(args.air_quality).aqi) = F(120)
    /\ FieldPresent(args.weather, "temperature")
    /\ Val(Val(args.weather).temperature) = F(20)
    /\ FieldPresent(args.vegetation, "vegetation_health")
    /\ Val(Val(args.vegetation).vegetation_health) = F(60)
    /\ ~IsNone(result)
    /\ Val(result).environmental_score = Some(4860)

C9_VegetationFusion ==
    (/\ fn = "_fuse_vegetation_analysis"
     /\ args.real_image
     /\ FieldPresent(args.traditional_veg, "vegetation_health"))
    => /\ raised = "none"
       /\ ~IsNone(result)
       /\ LET vision_health == args.cnn_results.vegetation.health_score
              traditional_health ==
                    Val(Val(args.traditional_veg).vegetation_health)
              r == Val(result)
          IN  /\ 100 * r.fused_health_score =
                    70 * (vision_health * 100) + 30 * traditional_health
              /\ r.fused_ndvi =
                    Some(args.cnn_results.vegetation.predicted_ndvi)

\* vision health 0.80 and traditional health 65: 0.7*80 + 0.3*65 = 75.5
C9_Witness ==
    /\ fn = "_fuse_vegetation_analysis"
    /\ args.real_image
    /\ args.cnn_results.vegetation.health_score = 80
    /\ args.cnn_results.vegetation.predicted_ndvi = 60
    /\ FieldPresent(args.traditional_veg, "vegetation_health")
    /\ Val(Val(args.traditional_veg).vegetation_health) = F(65)
    /\ ~IsNone(result)
    /\ Val(result).fused_health_score = 7550
    /\ Val(result).fused_ndvi = Some(60)

\* C10: both sides label a health h on the 0-100 scale with the same
\* thresholds: excellent from 80, good from 60, moderate from 40, poor from
\* 20, else very poor; equal health gives equal labels.
C10_SameThresholds ==
    (fn = "_fuse_vegetation_analysis" /\ ~IsNone(result)) =>
        LET r == Val(result)
            th == r.traditional_ai_input.health
            ch == r.cnn_ai_input.health
            label == [h \in {th, ch} |->
                        IF h >= F(80) THEN "excellent"
                        ELSE IF h >= F(60) THEN "good"
                        ELSE IF h >= F(40) THEN "moderate"
                        ELSE IF h >= F(20) THEN "poor"
                        ELSE "very poor"]
        IN  /\ r.traditional_ai_input.status = label[th]
            /\ r.cnn_ai_input.status = label[ch]
            /\ th = ch => r.traditional_ai_input.status = r.cnn_ai_input.status

\* C11: vegetation consensus.  When the traditional label and the vision
\* label are equal the consensus status is that label and the confidence is
\* high; otherwise the consensus status is the vision label and the
\* confidence is medium.
C11_VegetationConsensus ==
    (fn = "_fuse_vegetation_analysis" /\ ~IsNone(result)) =>
        LET r == Val(result)
            traditional_label == r.traditional_ai_input.status
            vision_label == r.cnn_ai_input.status
        IN  /\ vision_label =
                analyze_satellite_image(args.real_image, args.cnn_results)
                    .vegetation_analysis.vegetation_status
            /\ traditional_label = vision_label =>
                /\ r.consensus_status = traditional_label
                /\ r.fusion_confidence = "high"
            /\ traditional_label # vision_label =>
                /\ r.consensus_status = vision_label
                /\ r.fusion_confidence = "medium"

\* scenario E: traditional vegetation 65 (good) and vision status good give
\* the label good with confidence high
C11_Witness ==
    /\ fn = "_fuse_vegetation_analysis"
    /\ FieldPresent(args.traditional_veg, "vegetation_health")
    /\ Val(Val(args.traditional_veg).vegetation_health) = F(65)
    /\ args.real_image
    /\ ~IsNone(result)
    /\ Val(result).traditional_ai_input.status = "good"
    /\ Val(result).cnn_ai_input.status = "good"
    /\ Val(result).consensus_status = "good"
    /\ Val(result).fusion_confidence = "high"

\* C12: degraded-mode tagging.  A request whose vision side is missing has
\* the fused vegetation tagged traditional_only; a request whose traditional
\* side is missing (a reading without aqi included) has the fused health
\* taken from vision alone and tagged vision_only; with one side missing the
\* fused vegetation is never tagged high or medium.
C12_DegradedTagging ==
    pc = "done" =>
        /\ (VisionUnavailable /\ ~TraditionalUnavailable) =>
            /\ ~IsNone(fused_vegetation)
            /\ Val(fused_vegetation).fusion_confidence = "traditional_only"
        /\ (TraditionalUnavailable /\ ~VisionUnavailable) =>
            /\ ~IsNone(fused_vegetation)
            /\ Val(fused_vegetation).fusion_confidence = "vision_only"
            /\ Val(fused_vegetation).fused_health_score =
                    Val(Val(cnn_data).vegetation_analysis.cnn_health_score)
        /\ ((TraditionalUnavailable # VisionUnavailable)
                /\ ~IsNone(fused_vegetation)) =>
            Val(fused_vegetation).fusion_confidence \notin {"high", "medium"}

\* the traditional risk list and the vision risk list of a request whose
\* risks were combined
ReadingRisks ==
    LET t == Val(traditional_data)
    IN  TraditionalRisks(Val(Val(t.air_quality).aqi),
                         Val(Val(t.weather).temperature),
                         Val(Val(t.vegetation).vegetation_health))
VisionRisks == Val(cnn_data).environmental_risks.detected_risks

\* C13: risk completeness.  The combined list is the traditional risk list
\* followed by the vision risk list with nothing removed, so its length is
\* the sum of the two lengths, and the reported total is that length.
C13_RiskCompleteness ==
    ~IsNone(combined_risks) =>
        LET c == Val(combined_risks)
        IN  /\ c.all_detected_risks = ReadingRisks \o VisionRisks
            /\ Len(c.all_detected_risks) = Len(ReadingRisks) + Len(VisionRisks)
            /\ c.total_risks_detected = Len(c.all_detected_risks)
            /\ c.traditional_ai_risks = ReadingRisks
            /\ c.cnn_ai_risks = VisionRisks

\* three traditional risks and four vision risks combined into seven
C13_Witness ==
    /\ ~IsNone(combined_risks)
    /\ Len(ReadingRisks) = 3
    /\ Len(VisionRisks) = 4
    /\ Val(combined_risks).total_risks_detected = 7
    /\ Len(Val(combined_risks).all_detected_risks) = 7

\* C15: the combined risk level is high for more than two combined risks,
\* moderate for one or two, and low for none.
C15_OverallLevel ==
    ~IsNone(combined_risks) =>
        LET count == Len(ReadingRisks) + Len(VisionRisks)
            level == Val(combined_risks).combined_risk_level
        IN  /\ count > 2 => level = "high"
            /\ count \in {1, 2} => level = "moderate"
            /\ count = 0 => level = "low"

\* exactly three combined risks, two of them traditional, give high
C15_Witness ==
    /\ ~IsNone(combined_risks)
    /\ Len(ReadingRisks) = 2
    /\ Len(VisionRisks) = 1
    /\ Val(combined_risks).combined_risk_level = "high"

\* C16: every combined risk carries a detection method tag naming its
\* source: traditional for the risks derived from the reading, vision for
\* the risks of the vision assessment.
C16_DetectionMethodTag ==
    ~IsNone(combined_risks) =>
        LET all_risks == Val(combined_risks).all_detected_risks
            n == Len(Val(combined_risks).traditional_ai_risks)
        IN  \A i \in 1..Len(all_risks) :
                /\ "detection_method" \in DOMAIN all_risks[i]
                /\ i <= n => all_risks[i].detection_method
                                = "traditional_environmental_ai"
                /\ i > n => all_risks[i].detection_method
                                # "traditional_environmental_ai"

\* the combined risks whose type is reported by both detection methods
RisksUnderBothMethods(c) ==
    SelectSeq(c.all_detected_risks,
              LAMBDA r :
                /\ \E i \in 1..Len(c.traditional_ai_risks) :
                        c.traditional_ai_risks[i].type = r.type
                /\ \E j \in 1..Len(c.cnn_ai_risks) :
                        c.cnn_ai_risks[j].type = r.type)

\* C14: the consensus risks are exactly the combined risks whose type is
\* reported by both detection methods, and some reading and image give a
\* consensus list that is not empty.
C14_ConsensusRisks ==
    /\ [](~IsNone(result) =>
            Val(result).consensus_risks = RisksUnderBothMethods(Val(result)))
    /\ <>(/\ fn = "_combine_risk_assessments"
          /\ ~IsNone(result)
          /\ Val(result).consensus_risks # <<>>)

C18_ConfidenceEstimator ==
    (/\ fn = "_calculate_fusion_confidence"
     /\ ~IsNone(args.traditional_score) /\ ~IsNone(args.cnn_score))
    => /\ ~IsNone(result)
       /\ LET delta == Abs(Val(args.traditional_score) - Val(args.cnn_score))
              pct == Val(result).score_agreement_percentage
              tier == Val(result).overall_fusion_confidence
          IN  /\ pct = IF F(100) - delta < 0 THEN 0
                       ELSE IF F(100) - delta > F(100) THEN F(100)
                       ELSE F(100) - delta
              /\ pct >= 0 /\ pct <= F(100)
              /\ pct > F(80) => tier = "high"
              /\ (pct > F(60) /\ pct <= F(80)) => tier = "medium"
              /\ pct <= F(60) => tier = "low"

\* scores 50 and 70: agreement exactly 80, which is medium
C18_Witness ==
    /\ fn = "_calculate_fusion_confidence"
    /\ args.traditional_score = Some(F(50))
    /\ args.cnn_score = Some(F(70))
    /\ ~IsNone(result)
    /\ Val(result).score_agreement_percentage = F(80)
    /\ Val(result).overall_fusion_confidence = "medium"

\* the order of the tiers, the stronger confidence the greater
AgreementRank(tier) ==
    CASE tier = "high" -> 3
      [] tier = "medium" -> 2
      [] tier = "low_agreement" -> 1
ConfidenceRank(tier) ==
    CASE tier = "high" -> 3
      [] tier = "medium" -> 2
      [] tier = "low" -> 1
PairDelta(p) == Abs(p.traditional_score - p.cnn_score)

\* C19: monotonic agreement.  Of two score pairs, the one with the smaller
\* delta never gets a weaker tier than the other one, for the agreement tier
\* of the fused score (high > medium > low_agreement) and for the overall
\* tier of the fusion confidence (high > medium > low).
C19_MonotonicAgreement ==
    (~IsNone(result) /\ PairDelta(args.first) < PairDelta(args.second)) =>
        /\ fn = "_calculate_enhanced_environmental_score" =>
            AgreementRank(Val(result)[1].score_agreement)
                >= AgreementRank(Val(result)[2].score_agreement)
        /\ fn = "_calculate_fusion_confidence" =>
            ConfidenceRank(Val(result)[1].overall_fusion_confidence)
                >= ConfidenceRank(Val(result)[2].overall_fusion_confidence)

\* deltas 10 and 50 with the traditional score the greater in the first
\* pair and the smaller in the second: medium and low_agreement
C19_Witness ==
    /\ fn = "_calculate_enhanced_environmental_score"
    /\ ~IsNone(result)
    /\ args.first = [traditional_score |-> F(60), cnn_score |-> F(50)]
    /\ args.second = [traditional_score |-> F(50), cnn_score |-> F(100)]
    /\ Val(result)[1].score_agreement = "medium"
    /\ Val(result)[2].score_agreement = "low_agreement"

ReadingAdapterFailed ==
    \/ IsNone(Val(traditional_data).air_quality)
    \/ IsNone(Val(traditional_data).weather)
    \/ IsNone(Val(traditional_data).vegetation)
VisionAdapterFailed == Val(cnn_data) = _simulate_cnn_analysis

\* C21: a failure inside a provider adapter never reaches the caller.  The
\* request goes on with the side marked unavailable, so the caller sees no
\* error other than BothSourcesUnavailable and ValidationError, and a request
\* with one side left is answered.
C21_AdapterFailuresContained ==
    (pc = "done" /\ (ReadingAdapterFailed \/ VisionAdapterFailed)) =>
        /\ raised \in {"none", "BothSourcesUnavailable", "ValidationError"}
        /\ (TraditionalUnavailable # VisionUnavailable) => response = 200

\* the reading of the request has a vegetation health outside [0,100]
MalformedReading ==
    /\ ~IsNone(traditional_data)
    /\ FieldPresent(Val(traditional_data).vegetation, "vegetation_health")
    /\ Val(Val(Val(traditional_data).vegetation).vegetation_health)
            \notin 0..F(100)

CoordinatesOutOfRange ==
    /\ fn \in {"analyze_environment", "quick_environmental_scan",
               "_deg2tile_epsg4326"}
    /\ \/ Val(result).lat < Deg(-90) \/ Val(result).lat > Deg(90)
       \/ Val(result).lon < Deg(-180) \/ Val(result).lon > Deg(180)

\* C23: coordinate validation.  A request with a latitude outside [-90,90]
\* or a longitude outside [-180,180] ends in ValidationError; no tile is ever
\* computed for it from a clamped or wrapped coordinate.
C23_CoordinateValidation ==
    CoordinatesOutOfRange =>
        /\ raised = "ValidationError"
        /\ fn # "_deg2tile_epsg4326"

\* the value the request body gives for a coordinate under its long or its
\* short key, None if it gives none
SuppliedCoordinate(key, short) ==
    IF key \in DOMAIN args THEN args[key]
    ELSE IF short \in DOMAIN args THEN args[short]
    ELSE None

\* C29: /analyze and /quick-scan analyse the coordinates of the request.  A
\* latitude and a longitude the request carries, 0 included, are the ones
\* handed to the providers, and the default coordinate is used only for a
\* coordinate the request leaves out.
C29_SuppliedCoordinatesUsed ==
    fn \in {"analyze_environment", "quick_environmental_scan"} =>
        LET lat == SuppliedCoordinate("latitude", "lat")
            lon == SuppliedCoordinate("longitude", "lon")
        IN  /\ ~IsNone(lat) => Val(result).lat = Val(lat)
            /\ ~IsNone(lon) => Val(result).lon = Val(lon)
            /\ IsNone(lat) => Val(result).lat = DefaultLat
            /\ IsNone(lon) => Val(result).lon = DefaultLon

\* where the request stands with its two provider calls: line 27 has
\* returned; line 30 has been reached and the vision call made
TraditionalCallCompleted == ~IsNone(traditional_data)
VisionCallIssued == pc \notin {"request", "traditional_done"}
FusionBegun == pc \notin {"request", "traditional_done", "fuse_vegetation"}

\* C24: the two provider calls of a request are issued concurrently.  The
\* vision call has been issued by the time the traditional call completes
\* (it does not wait for it), and fusion begins only when both calls have
\* completed.
C24_ProvidersConcurrent ==
    /\ TraditionalCallCompleted => VisionCallIssued
    /\ FusionBegun => (~IsNone(traditional_data) /\ ~IsNone(cnn_data))

\* C25: reentrancy.  In every interleaving of the requests running at once
\* on one engine, a request that has returned holds the fused analysis it
\* would have produced alone from its own provider results, and a request
\* that has failed has failed as it would have alone.
C25_Reentrant ==
    \A r \in DOMAIN frames :
        frames[r].line = 40 =>
            LET t == args[r].traditional_data
                c == args[r].cnn_data
                exc == _fuse_traditional_and_cnn_analysis_raises(t, c)
            IN  /\ frames[r].raised = exc
                /\ exc = "none" =>
                    frames[r].fused_analysis =
                        Some(_fuse_traditional_and_cnn_analysis(t, c, now))
                /\ exc # "none" => IsNone(frames[r].fused_analysis)

\* two requests with different provider results have both returned, each
\* with a fused analysis of its own
C25_Witness ==
    /\ DOMAIN frames = Requests
    /\ \A r \in Requests :
        frames[r].line = 40 /\ ~IsNone(frames[r].fused_analysis)
    /\ args[1] # args[2]
    /\ Val(frames[1].fused_analysis).enhanced_environmental_score
            # Val(frames[2].fused_analysis).enhanced_environmental_score

\* an upstream source supplied the field
AqiSupplied ==
    \/ FieldPresent(args.waqi, "aqi")
    \/ ~IsNone(args.openaq) /\ ~IsNone(Averaged(Val(args.openaq), "pm25"))
    \/ FieldPresent(args.purpleair, "pm25_10min")
VegetationHealthSupplied == ~IsNone(args.modis) /\ Val(args.modis) # 0

\* C26: absent fields stay absent.  On every path through the provider's
\* fallback chain, the reading has an aqi only if an upstream source gave an
\* aqi or the PM2.5 it is derived from, and, when WAQI answers, only if WAQI
\* gave it; it has a vegetation health only if the satellite source gave one.
C26_AbsentFieldsStayAbsent ==
    /\ fn = "get_air_quality" =>
        (FieldPresent(Val(result), "aqi") =>
            /\ AqiSupplied
            /\ Val(Val(result)).source = "WAQI" =>
                    FieldPresent(args.waqi, "aqi"))
    /\ fn = "get_satellite_vegetation" =>
        (FieldPresent(Val(result), "vegetation_health") =>
            VegetationHealthSupplied)

\* C27: the traditional score is within the range score fusion assumes.  For
\* a reading with aqi >= 0, vegetation health in [0,100] and any
\* temperature, the score of the aggregator lies in [0,100].
C27_TraditionalScoreInRange ==
    (/\ fn = "_get_traditional_environmental_data"
     /\ FieldPresent(args.air_quality, "aqi")
     /\ FieldPresent(args.weather, "temperature")
     /\ FieldPresent(args.vegetation, "vegetation_health")
     /\ Val(Val(args.air_quality).aqi) >= 0
     /\ Val(Val(args.vegetation).vegetation_health) \in 0..F(100))
    => /\ ~IsNone(Val(result).environmental_score)
       /\ Val(Val(result).environmental_score) >= 0
       /\ Val(Val(result).environmental_score) <= F(100)

\* the tiers of both verdicts on one scale, low_agreement counted as low
VerdictRank(tier) ==
    CASE tier = "high" -> 3
      [] tier = "medium" -> 2
      [] tier \in {"low", "low_agreement"} -> 1

\* C28: the two confidence verdicts on one pair of scores do not contradict
\* each other.  The overall tier of the fusion confidence is never weaker
\* than the agreement tier of the fused score; an agreement tier of high
\* comes with an overall tier of high.
C28_VerdictsConsistent ==
    (fn = "_fuse_traditional_and_cnn_analysis" /\ ~IsNone(result)
        /\ "fusion_confidence" \in DOMAIN Val(result)) =>
        LET agreement_tier ==
                Val(result).enhanced_environmental_score.score_agreement
            overall_tier == Val(result).fusion_confidence.overall_fusion_confidence
        IN  /\ VerdictRank(overall_tier) >= VerdictRank(agreement_tier)
            /\ agreement_tier = "high" => overall_tier = "high"

\* scores 50 and 65: delta 15 is medium agreement, 85 percent is high
\* confidence
C28_Witness ==
    /\ fn = "_fuse_traditional_and_cnn_analysis"
    /\ args = [traditional_score |-> F(50), cnn_score |-> F(65)]
    /\ ~IsNone(result)
    /\ Val(result).enhanced_environmental_score.score_agreement = "medium"
    /\ Val(result).fusion_confidence.overall_fusion_confidence = "high"

\* C30: exchange identifiers stay unique under the history cap.  After any
\* sequence of start_conversation calls, more than ten on one conversation
\* included, the exchange ids stored for a conversation are strictly
\* increasing in arrival order, hence pairwise distinct.
C30_ExchangeIdsUnique ==
    \A c \in DOMAIN conversation_history :
        \A i, j \in 1..Len(conversation_history[c]) :
            i < j => conversation_history[c][i].exchange_id
                        < conversation_history[c][j].exchange_id

====
